---- MODULE Spec2Model ----
(***************************************************************************)
(* A model of the discovery engine of github-scraping-agent-ai:            *)
(*   - AsyncGitHubClient.search_repos / _search_repos_single (github.py)   *)
(*   - AsyncGitHubClient.fetch_readmes / _fetch_single_readme (github.py)  *)
(*   - RepoCache (cache.py)                                                *)
(* Each part has its own specification (SearchSpec, FetchSpec, CacheSpec)  *)
(* over its own variables; the variables of the other parts stay put.      *)
(***************************************************************************)
EXTENDS Integers, Sequences, FiniteSets, TLC

Min(a, b) == IF a < b THEN a ELSE b

(***************************************************************************)
(* Program constants.                                                      *)
(***************************************************************************)
\* github.py:211  MAX_KEYWORDS_PER_QUERY = 6
MAX_KEYWORDS_PER_QUERY == 6
\* github.py:243  per_page = 100 (the page size asked of the endpoint)
per_page == 100
\* github.py:278  if page > 10: break
PageCeiling == 10

(***************************************************************************)
(* Bounds of the model.                                                    *)
(***************************************************************************)
\* identifiers (full_name) the search endpoint knows in the merge scenarios
NumIds == 2
\* star counts range over 1..MaxStars
MaxStars == 2
\* items per page in the merge scenarios (the endpoint may return fewer
\* than per_page items)
MaxPageItems == 1
\* the requested cap (max_repos) ranges over 0..MaxCap in the merge scenarios
MaxCap == 2
\* fetch_readmes is given 0..MaxFetch repositories
MaxFetch == 3
\* max_concurrency ranges over 1..MaxConcurrency
MaxConcurrency == 2
\* a decoded README has 0..MaxReadmeLen characters
MaxReadmeLen == 2
\* max_chars ranges over 0..MaxChars
MaxChars == 1
\* the content of a README has 0..MaxBytes bytes in the decoding scenarios
MaxBytes == 3
\* max_chars ranges over 0..MaxLimit in the decoding scenarios
MaxLimit == 3
\* create_provider is given the models 1..NumModels
NumModels == 3
\* create_provider is given the API keys 1..NumKeys
NumKeys == 3
\* send_repos is given 0..MaxMatched pairs
MaxMatched == 5
\* batch_size ranges over 1..MaxBatchSize
MaxBatchSize == 4
\* config.batch_size ranges over 1..MaxConfigBatch
MaxConfigBatch == 2
\* the seen-cache holds identifiers 1..NumCacheIds
NumCacheIds == 2
\* days are numbered 0..MaxDay
MaxDay == 2
\* cache_days ranges over 0..MaxCacheDays
MaxCacheDays == 1

(***************************************************************************)
(* Search: state.                                                          *)
(***************************************************************************)
VARIABLES
    max_repos,        \* search_repos argument: the cap
    keywords,         \* search_repos argument: the keyword list (<<>> = None)
    cached_repos,     \* main.py:98 the skip-set taken from the seen-cache
    endpoint,         \* what the search endpoint can answer: [catalog, sizes]
    spc,              \* control point of search_repos
    keyword_batches,  \* github.py:215 (<<>> on the single-query path)
    batch,            \* index of the batch being searched (0: single query)
    repos,            \* _search_repos_single local: repos
    page,             \* _search_repos_single local: page
    all_repos,        \* github.py:219 dict in insertion order, as a sequence
    page_requests,    \* page requests issued by the current _search_repos_single
    failed_batch,     \* the batch whose page request failed (-1: none)
    result,           \* the list search_repos returned
    sync              \* GitHubClient.search_repos (the synchronous client)
                      \* called with the same arguments and given the same
                      \* responses: its control point and locals, as a record

searchVars == <<max_repos, keywords, cached_repos, endpoint, spc,
                keyword_batches, batch, repos, page, all_repos,
                page_requests, failed_batch, result, sync>>

(***************************************************************************)
(* README fetching: state.                                                 *)
(***************************************************************************)
VARIABLES
    fetch_names,      \* fetch_readmes argument: the repos' full_name, in order
    max_chars,        \* fetch_readmes argument
    max_concurrency,  \* AsyncGitHubClient.max_concurrency
    gather,           \* fetch_readmes: not_called, pending, returned, raised
    fpc,              \* per task: created, waiting, granted, inflight, done
    response,         \* per task: the answer its request got ("none" before)
    outcome,          \* per task: what _fetch_single_readme returned or raised
    sem_value,        \* asyncio.Semaphore._value
    sem_waiters,      \* asyncio.Semaphore._waiters, first in first out
    readmes           \* the dict fetch_readmes returned

fetchVars == <<fetch_names, max_chars, max_concurrency, gather, fpc, response,
               outcome, sem_value, sem_waiters, readmes>>

(***************************************************************************)
(* Seen-cache: state.                                                      *)
(***************************************************************************)
VARIABLES
    cache_file,       \* the file at cache_path: [exists, text]
    data,             \* RepoCache._data
    cache_days,       \* RepoCache.cache_days
    today,            \* date.today(), as a day number
    cpc,              \* off, ready, saving, stopped, stopped_in_save, raised
    save_text,        \* the text save is writing (<<>> outside save)
    save_prev,        \* the file as it was when save began
    last_op,          \* the operation of RepoCache that returned last
    never_marked      \* history: when the first process began with an empty
                      \* store, the identifiers mark_seen was never called
                      \* with since; {} otherwise

cacheVars == <<cache_file, data, cache_days, today, cpc, save_text, save_prev,
               last_op, never_marked>>

(***************************************************************************)
(* README decoding: state.                                                 *)
(***************************************************************************)
VARIABLES
    content_bytes,    \* what base64.b64decode(data["content"]) returned
    decode_limit,     \* _fetch_single_readme argument: max_chars
    decode_pc,        \* received, returned
    decode_text       \* the text _fetch_single_readme returned

decodeVars == <<content_bytes, decode_limit, decode_pc, decode_text>>

(***************************************************************************)
(* Provider factory: state.                                                *)
(***************************************************************************)
VARIABLES
    provider_name,    \* create_provider argument
    llm_model,        \* create_provider argument: model
    llm_api_key,      \* create_provider argument: api_key
    factory_pc,       \* called, ended
    factory_result    \* what create_provider returned or raised

factoryVars == <<provider_name, llm_model, llm_api_key, factory_pc,
                 factory_result>>

(***************************************************************************)
(* Discord: state.                                                         *)
(***************************************************************************)
VARIABLES
    repos_with_results,  \* send_repos argument: the (repo, result) pairs
    batch_size,          \* send_repos argument
    send_i,              \* send_repos: the loop variable i
    discord_pc,          \* idle, summary, send_repos, returned, raised
    posts                \* the messages the webhook accepted, in order

discordVars == <<repos_with_results, batch_size, send_i, discord_pc, posts>>

(***************************************************************************)
(* Pipeline: state.  A run of run_pipeline_async also uses the seen-cache  *)
(* (cache_file, data, cache_days, today) and the Discord client.           *)
(***************************************************************************)
VARIABLES
    ppc,          \* where the run is: start, search, evaluate, summary, ...
    dry_run,      \* run_pipeline_async argument
    min_stars,    \* run_pipeline_async argument (effective_min_stars)
    skip_repos,   \* cached_repos, the set handed to the search
    found,        \* what github.search_repos returned
    new_repos,    \* new_repos after the star filter
    verdicts,     \* what the provider's API answered, per evaluated repo
    matched,      \* matched
    run_result,   \* the dict the run returns
    start_file    \* the cache file as the run found it

pipelineVars == <<ppc, dry_run, min_stars, skip_repos, found, new_repos,
                  verdicts, matched, run_result, start_file>>

vars == <<searchVars, fetchVars, cacheVars, decodeVars, factoryVars,
          discordVars, pipelineVars>>

notSearchVars ==
    <<fetchVars, cacheVars, decodeVars, factoryVars, discordVars, pipelineVars>>
notFetchVars ==
    <<searchVars, cacheVars, decodeVars, factoryVars, discordVars, pipelineVars>>
notCacheVars ==
    <<searchVars, fetchVars, decodeVars, factoryVars, discordVars, pipelineVars>>
notDecodeVars ==
    <<searchVars, fetchVars, cacheVars, factoryVars, discordVars, pipelineVars>>
notFactoryVars ==
    <<searchVars, fetchVars, cacheVars, decodeVars, discordVars, pipelineVars>>
notDiscordVars ==
    <<searchVars, fetchVars, cacheVars, decodeVars, factoryVars, pipelineVars>>
\* what a step of the run itself leaves alone
notPipelineVars == <<searchVars, fetchVars, decodeVars, factoryVars>>

(***************************************************************************)
(* Search: pure helpers.                                                   *)
(***************************************************************************)
\* Repository.from_api: of an item's fields the search reads full_name and
\* stargazers_count
Repository(names, counts) == [full_name : names, stars : counts]

\* a split that leaves out the last, shorter batch
KeywordBatchesFullOnly(kw) ==
    [i \in 1..(Len(kw) \div MAX_KEYWORDS_PER_QUERY) |->
        SubSeq(kw, (i - 1) * MAX_KEYWORDS_PER_QUERY + 1,
                   i * MAX_KEYWORDS_PER_QUERY)]

\* keywords[i:i + 6] for i in range(0, len(keywords), 6)
KeywordBatches(kw) ==
    [i \in 1..((Len(kw) + MAX_KEYWORDS_PER_QUERY - 1) \div MAX_KEYWORDS_PER_QUERY) |->
        SubSeq(kw, (i - 1) * MAX_KEYWORDS_PER_QUERY + 1,
                   Min(i * MAX_KEYWORDS_PER_QUERY, Len(kw)))]

\* keywords and len(keywords) > MAX_KEYWORDS_PER_QUERY
UseBatches(kw) == Len(kw) > MAX_KEYWORDS_PER_QUERY

Names(s) == {s[i].full_name : i \in 1..Len(s)}

Range(s) == {s[i] : i \in 1..Len(s)}

\* for item in items: repos.append(...); if len(repos) >= max_repos: break
\* The test comes after the append, so the loop takes at least one item and
\* stops at the item that brings the list to the cap.
AppendItems(rs, items, cap) ==
    LET room == IF cap - Len(rs) < 1 THEN 1 ELSE cap - Len(rs)
    IN  rs \o SubSeq(items, 1, Min(Len(items), room))

\* a merge that lets the later copy replace the earlier one
MergeOneLastWins(all, repo) ==
    IF repo.full_name \notin Names(all) THEN Append(all, repo)
    ELSE [i \in 1..Len(all) |->
            IF all[i].full_name = repo.full_name THEN repo ELSE all[i]]

\* if repo.full_name not in all_repos: all_repos[repo.full_name] = repo
MergeOne(all, repo) ==
    IF repo.full_name \notin Names(all) THEN Append(all, repo) ELSE all

\* for repo in batch_repos: ...
RECURSIVE MergeBatch(_, _)
MergeBatch(all, batch_repos) ==
    IF batch_repos = <<>> THEN all
    ELSE MergeBatch(MergeOne(all, Head(batch_repos)), Tail(batch_repos))

\* sorted(..., key=lambda r: r.stars, reverse=True) is stable: equal star
\* counts keep their order
RECURSIVE InsertByStars(_, _)
InsertByStars(r, s) ==
    IF s = <<>> THEN <<r>>
    ELSE IF Head(s).stars >= r.stars
         THEN <<Head(s)>> \o InsertByStars(r, Tail(s))
         ELSE <<r>> \o s

RECURSIVE SortFrom(_, _)
SortFrom(sorted, rest) ==
    IF rest = <<>> THEN sorted
    ELSE SortFrom(InsertByStars(Head(rest), sorted), Tail(rest))

SortByStars(s) == SortFrom(<<>>, s)

\* sorted_repos[:max_repos]
Truncate(s, n) == SubSeq(s, 1, Min(Len(s), n))

\* sorted(all_repos.values(), ...)[:max_repos]
MergedResult(all, cap) == Truncate(SortByStars(all), cap)

\* a ceiling test that lets one page too many through
PastCeilingOffByOne(p) == p > PageCeiling + 1

\* a loop that skips a page index
NextPageSkips(p) == p + 2

\* page += 1 (github.py:277)
NextPage(p) == p + 1

\* page > 10
PastCeiling(p) == p > PageCeiling

\* a failure handling that ends only the batch's pagination
FailureOutcomeIsolated == "single_return"

\* the request or raise_for_status() raises httpx.HTTPError: nothing in
\* _search_repos_single or search_repos catches it
FailureOutcome == "raised"

(***************************************************************************)
(* Search: the synchronous client, GitHubClient (github.py:56-142).  Its   *)
(* state is the record `sync`; each operator below is one stretch of its   *)
(* code, applied when the asynchronous client takes the same stretch and   *)
(* with the same response.  A stretch taken at another control point than  *)
(* the one it starts at means the two clients have parted: "diverged".     *)
(***************************************************************************)
\* github.py:72  MAX_KEYWORDS_PER_QUERY = 6
SyncMaxKeywordsPerQuery == 6
\* github.py:139  if page > 10: break
SyncPageCeiling == 10

SyncIdle ==
    [pc |-> "idle", keyword_batches |-> <<>>, batch |-> 0, repos |-> <<>>,
     page |-> 0, all_repos |-> <<>>, page_requests |-> 0,
     failed_batch |-> -1, result |-> <<>>]

SyncDiverged(s) == [s EXCEPT !.pc = "diverged"]

\* github.py:76-79
SyncKeywordBatches(kw) ==
    [i \in 1..((Len(kw) + SyncMaxKeywordsPerQuery - 1) \div SyncMaxKeywordsPerQuery) |->
        SubSeq(kw, (i - 1) * SyncMaxKeywordsPerQuery + 1,
                   Min(i * SyncMaxKeywordsPerQuery, Len(kw)))]

\* a ceiling one page lower
SyncPastCeilingOffByOne(p) == p > SyncPageCeiling - 1

\* github.py:139
SyncPastCeiling(p) == p > SyncPageCeiling

\* github.py:74-104: search_repos is called and enters _search_repos_single
SyncCall(s, kw) ==
    IF s.pc # "idle" THEN SyncDiverged(s)
    ELSE IF Len(kw) > SyncMaxKeywordsPerQuery
    THEN [s EXCEPT !.keyword_batches = SyncKeywordBatches(kw), !.batch = 1,
                   !.all_repos = <<>>, !.repos = <<>>, !.page = 1,
                   !.page_requests = 0, !.pc = "while"]
    ELSE [s EXCEPT !.keyword_batches = <<>>, !.batch = 0,
                   !.all_repos = <<>>, !.repos = <<>>, !.page = 1,
                   !.page_requests = 0, !.pc = "while"]

\* github.py:114-124: the while test and the request
SyncWhileTest(s, cap) ==
    IF s.pc # "while" THEN SyncDiverged(s)
    ELSE IF Len(s.repos) < cap
    THEN [s EXCEPT !.pc = "awaiting", !.page_requests = @ + 1]
    ELSE [s EXCEPT !.pc = "single_return"]

\* github.py:125-140: a 2xx response
SyncPageResponse(s, items, cap) ==
    IF s.pc # "awaiting" THEN SyncDiverged(s)
    ELSE IF items = <<>> THEN [s EXCEPT !.pc = "single_return"]
    ELSE [s EXCEPT !.repos = AppendItems(@, items, cap),
                   !.page = @ + 1,
                   !.pc = IF SyncPastCeiling(s.page + 1)
                          THEN "single_return" ELSE "while"]

\* github.py:115-125: the request or raise_for_status() raises; no handler
SyncPageFailure(s) ==
    IF s.pc # "awaiting" THEN SyncDiverged(s)
    ELSE [s EXCEPT !.pc = "raised", !.failed_batch = s.batch]

\* github.py:81-92, 142: _search_repos_single returns; the batch is merged
\* and the next one searched, or search_repos returns
SyncSingleReturn(s, cap) ==
    IF s.pc # "single_return" THEN SyncDiverged(s)
    ELSE IF s.batch = 0 THEN [s EXCEPT !.result = s.repos, !.pc = "returned"]
    ELSE LET merged == MergeBatch(s.all_repos, s.repos)
         IN  IF s.batch < Len(s.keyword_batches)
             THEN [s EXCEPT !.all_repos = merged, !.batch = @ + 1,
                            !.repos = <<>>, !.page = 1,
                            !.page_requests = 0, !.pc = "while"]
             ELSE [s EXCEPT !.all_repos = merged,
                            !.result = MergedResult(merged, cap),
                            !.pc = "returned"]

NoRepeat(s) == \A i, j \in 1..Len(s) : s[i].full_name = s[j].full_name => i = j

\* the `items` the endpoint may answer the request for page p with.  No
\* identifier comes twice within one page.  A fixed endpoint holds the
\* identifiers 1..total, all with one star, and answers page p with the
\* p-th slice of per_page of them; a drifting endpoint answers with any
\* page of its catalog, so an identifier may come again on a later page or
\* in a later batch, with another star count.
Pages(ep, p) ==
    IF ep.fixed
    THEN {[i \in 1..Min(per_page, ep.total - (p - 1) * per_page) |->
              [full_name |-> (p - 1) * per_page + i, stars |-> 1]]}
    ELSE {s \in UNION {[1..n -> ep.catalog] : n \in ep.sizes} : NoRepeat(s)}

(***************************************************************************)
(* README fetching: pure helpers.                                          *)
(***************************************************************************)
\* a decoded README: the characters 1..n
Readmes == {[i \in 1..n |-> i] : n \in 0..MaxReadmeLen}

\* what a README request can end in: a 200 with a well-formed body, a 404,
\* another non-2xx status, a transport error, a 200 whose body does not
\* decode (not JSON, no "content" field, invalid base64), and no answer
\* within the client's timeout of 30 s (github.py:183), on which
\* self._client.get raises httpx.TimeoutException
ReadmeResponses ==
    [kind : {"ok"}, text : Readmes]
        \cup [kind : {"not_found", "status_error", "network_error", "decode_error",
                      "timeout"},
              text : {<<>>}]

NoResponse == [kind |-> "none", text |-> <<>>]
NoOutcome == [kind |-> "pending", text |-> <<>>]

\* content[:max_chars] (github.py:299)
Truncated(content, limit) == SubSeq(content, 1, Min(Len(content), limit))

\* a try block in which the 404 is not singled out and reaches
\* raise_for_status outside the handler
FetchOutcomeNotFoundRaises(resp, limit) ==
    CASE resp.kind = "not_found" ->
            [kind |-> "exception", text |-> <<>>]
      [] resp.kind \in {"status_error", "network_error", "timeout"} ->
            [kind |-> "value", text |-> <<>>]
      [] resp.kind = "decode_error" ->
            [kind |-> "exception", text |-> <<>>]
      [] resp.kind = "ok" ->
            [kind |-> "value", text |-> Truncated(resp.text, limit)]

\* a try block whose handler does not cover the timeout
FetchOutcomeTimeoutRaises(resp, limit) ==
    CASE resp.kind = "not_found" ->
            [kind |-> "value", text |-> <<>>]
      [] resp.kind \in {"status_error", "network_error"} ->
            [kind |-> "value", text |-> <<>>]
      [] resp.kind \in {"decode_error", "timeout"} ->
            [kind |-> "exception", text |-> <<>>]
      [] resp.kind = "ok" ->
            [kind |-> "value", text |-> Truncated(resp.text, limit)]

\* the body of the try block of _fetch_single_readme on a response
\* (github.py:292-301): what the coroutine returns, or that it raises
FetchOutcome(resp, limit) ==
    CASE resp.kind = "not_found" ->
            [kind |-> "value", text |-> <<>>]
      [] resp.kind \in {"status_error", "network_error", "timeout"} ->
            \* httpx.HTTPError (TimeoutException is a TransportError), caught
            [kind |-> "value", text |-> <<>>]
      [] resp.kind = "decode_error" ->
            \* ValueError, KeyError or binascii.Error: not an httpx.HTTPError
            [kind |-> "exception", text |-> <<>>]
      [] resp.kind = "ok" ->
            [kind |-> "value", text |-> Truncated(resp.text, limit)]

\* an acquire that never waits
CanAcquireAlways(value, waiters) == TRUE

\* asyncio.Semaphore.acquire takes a permit at once when the semaphore is
\* not locked: its value is positive and nobody waits
CanAcquire(value, waiters) == value > 0 /\ waiters = <<>>

Tasks == 1..Len(fetch_names)

\* a gather that returns as soon as one coroutine has returned
GatherDoneFirst(out) ==
    \E t \in DOMAIN out : out[t].kind = "value"

\* asyncio.gather returns once every coroutine has returned (github.py:318)
GatherDone(out) ==
    \A t \in DOMAIN out : out[t].kind = "value"

InFlight == {t \in Tasks : fpc[t] = "inflight"}

(***************************************************************************)
(* Search: initial states.  Two families of inputs: merge scenarios (a     *)
(* small catalog whose items may recur with other star counts, small caps, *)
(* one to three keyword batches, identifier 1 in the seen-cache) and       *)
(* paging scenarios (full pages of per_page items, caps around             *)
(* PageCeiling * per_page, a single query).                                *)
(***************************************************************************)
MergeEndpoint == [fixed |-> FALSE,
                  total |-> 0,
                  catalog |-> Repository(1..NumIds, 1..MaxStars),
                  sizes |-> 0..MaxPageItems]

PagingEndpoint(total) == [fixed |-> TRUE,
                          total |-> total,
                          catalog |-> {},
                          sizes |-> {}]

KeywordCounts == {0, 1, MAX_KEYWORDS_PER_QUERY, MAX_KEYWORDS_PER_QUERY + 1,
                  2 * MAX_KEYWORDS_PER_QUERY + 1}

PagingTotals == {0, per_page - 1, per_page, per_page + 1,
                 PageCeiling * per_page - 1, PageCeiling * per_page,
                 PageCeiling * per_page + 1, 2 * PageCeiling * per_page}

PagingCaps == {per_page + 1, PageCeiling * per_page - 1,
               PageCeiling * per_page, PageCeiling * per_page + per_page}

SearchIdle ==
    /\ spc = "idle"
    /\ keyword_batches = <<>>
    /\ batch = 0
    /\ repos = <<>>
    /\ page = 0
    /\ all_repos = <<>>
    /\ page_requests = 0
    /\ failed_batch = -1
    /\ result = <<>>
    /\ sync = SyncIdle

SearchInit ==
    /\ \/ /\ endpoint = MergeEndpoint
          /\ max_repos \in 0..MaxCap
          /\ \E n \in KeywordCounts : keywords = [i \in 1..n |-> i]
          /\ cached_repos = {1}
       \/ /\ \E total \in PagingTotals : endpoint = PagingEndpoint(total)
          /\ max_repos \in PagingCaps
          /\ keywords = <<>>
          /\ cached_repos = {}
    /\ SearchIdle

(***************************************************************************)
(* Search: actions.                                                        *)
(***************************************************************************)
\* search_repos is called (github.py:213-231): it splits the keywords and
\* enters _search_repos_single (github.py:241-243) for the first batch, or
\* for the whole list.
CallSearch ==
    /\ UNCHANGED notSearchVars
    /\ spc = "idle"
    /\ IF UseBatches(keywords)
       THEN /\ keyword_batches' = KeywordBatches(keywords)
            /\ batch' = 1
       ELSE /\ keyword_batches' = <<>>
            /\ batch' = 0
    /\ all_repos' = <<>>
    /\ repos' = <<>>
    /\ page' = 1
    /\ page_requests' = 0
    /\ spc' = "while"
    /\ sync' = SyncCall(sync, keywords)
    /\ UNCHANGED <<max_repos, keywords, cached_repos, endpoint,
                   failed_batch, result>>

\* while len(repos) < max_repos: issue the request for `page` (github.py:253-263)
WhileTest ==
    /\ UNCHANGED notSearchVars
    /\ spc = "while"
    /\ IF Len(repos) < max_repos
       THEN /\ spc' = "awaiting"
            /\ page_requests' = page_requests + 1
       ELSE /\ spc' = "single_return"
            /\ UNCHANGED page_requests
    /\ sync' = SyncWhileTest(sync, max_repos)
    /\ UNCHANGED <<max_repos, keywords, cached_repos, endpoint,
                   keyword_batches, batch, repos, page, all_repos,
                   failed_batch, result>>

\* the response arrives with a 2xx status (github.py:264-279)
PageResponse ==
    /\ UNCHANGED notSearchVars
    /\ spc = "awaiting"
    /\ \E items \in Pages(endpoint, page) :
         /\ sync' = SyncPageResponse(sync, items, max_repos)
         /\ IF items = <<>>
            THEN /\ spc' = "single_return"
                 /\ UNCHANGED <<repos, page>>
            ELSE /\ repos' = AppendItems(repos, items, max_repos)
                 /\ page' = NextPage(page)
                 /\ spc' = IF PastCeiling(NextPage(page))
                           THEN "single_return" ELSE "while"
    /\ UNCHANGED <<max_repos, keywords, cached_repos, endpoint,
                   keyword_batches, batch, all_repos,
                   page_requests, failed_batch, result>>

\* the request fails or response.raise_for_status() raises (github.py:254-264)
PageFailure ==
    /\ UNCHANGED notSearchVars
    /\ spc = "awaiting"
    /\ spc' = FailureOutcome
    /\ failed_batch' = batch
    /\ sync' = SyncPageFailure(sync)
    /\ UNCHANGED <<max_repos, keywords, cached_repos, endpoint,
                   keyword_batches, batch, repos, page, all_repos,
                   page_requests, result>>

\* _search_repos_single returns repos (github.py:281); search_repos merges
\* the batch and goes on to the next one, or sorts, truncates and returns
\* (github.py:221-231)
SingleReturn ==
    /\ UNCHANGED notSearchVars
    /\ spc = "single_return"
    /\ IF batch = 0
       THEN /\ result' = repos
            /\ spc' = "returned"
            /\ UNCHANGED <<all_repos, batch, repos, page, page_requests>>
       ELSE LET merged == MergeBatch(all_repos, repos)
            IN  /\ all_repos' = merged
                /\ IF batch < Len(keyword_batches)
                   THEN /\ batch' = batch + 1
                        /\ repos' = <<>>
                        /\ page' = 1
                        /\ page_requests' = 0
                        /\ spc' = "while"
                        /\ UNCHANGED result
                   ELSE /\ result' = MergedResult(merged, max_repos)
                        /\ spc' = "returned"
                        /\ UNCHANGED <<batch, repos, page, page_requests>>
    /\ sync' = SyncSingleReturn(sync, max_repos)
    /\ UNCHANGED <<max_repos, keywords, cached_repos, endpoint,
                   keyword_batches, failed_batch>>

SearchNext ==
    \/ CallSearch
    \/ WhileTest
    \/ PageResponse
    \/ PageFailure
    \/ SingleReturn

(***************************************************************************)
(* README fetching: initial states and actions.                            *)
(***************************************************************************)
FetchIdle ==
    /\ gather = "not_called"
    /\ fpc = [t \in Tasks |-> "created"]
    /\ response = [t \in Tasks |-> NoResponse]
    /\ outcome = [t \in Tasks |-> NoOutcome]
    /\ sem_value = 0
    /\ sem_waiters = <<>>
    /\ readmes = <<>>

FetchInit ==
    /\ \E n \in 0..MaxFetch : fetch_names = [i \in 1..n |-> i]
    /\ max_chars \in 0..MaxChars
    /\ max_concurrency \in 1..MaxConcurrency
    /\ FetchIdle

\* the part is not in use
FetchParked ==
    /\ fetch_names = <<>>
    /\ max_chars = 0
    /\ max_concurrency = 1
    /\ FetchIdle

\* fetch_readmes is called: the semaphore and the coroutines are created and
\* gather schedules them (github.py:311-318)
CallFetchReadmes ==
    /\ UNCHANGED notFetchVars
    /\ gather = "not_called"
    /\ gather' = "pending"
    /\ sem_value' = max_concurrency
    /\ UNCHANGED <<fetch_names, max_chars, max_concurrency, fpc, response,
                   outcome, sem_waiters, readmes>>

\* a task starts _fetch_single_readme: `async with semaphore` takes a permit
\* and the request is issued, or the task queues up (github.py:287-292)
StartTask(t) ==
    /\ UNCHANGED notFetchVars
    /\ gather # "not_called"
    /\ fpc[t] = "created"
    /\ IF CanAcquire(sem_value, sem_waiters)
       THEN /\ sem_value' = sem_value - 1
            /\ fpc' = [fpc EXCEPT ![t] = "inflight"]
            /\ UNCHANGED sem_waiters
       ELSE /\ sem_waiters' = Append(sem_waiters, t)
            /\ fpc' = [fpc EXCEPT ![t] = "waiting"]
            /\ UNCHANGED sem_value
    /\ UNCHANGED <<fetch_names, max_chars, max_concurrency, gather, response,
                   outcome, readmes>>

\* a task that was handed a permit resumes and issues its request
\* (github.py:290-292)
ResumeTask(t) ==
    /\ UNCHANGED notFetchVars
    /\ fpc[t] = "granted"
    /\ fpc' = [fpc EXCEPT ![t] = "inflight"]
    /\ UNCHANGED <<fetch_names, max_chars, max_concurrency, gather, response,
                   outcome, sem_value, sem_waiters, readmes>>

\* the request of a task ends; the task returns or raises, and leaving the
\* `async with` block releases the permit: Semaphore.release hands it to
\* the first waiter, or adds it to the value (github.py:290-301)
ReadmeResponse(t) ==
    /\ UNCHANGED notFetchVars
    /\ fpc[t] = "inflight"
    /\ \E resp \in ReadmeResponses :
         /\ response' = [response EXCEPT ![t] = resp]
         /\ outcome' = [outcome EXCEPT ![t] = FetchOutcome(resp, max_chars)]
    /\ IF sem_waiters # <<>>
       THEN /\ fpc' = [fpc EXCEPT ![t] = "done",
                                  ![Head(sem_waiters)] = "granted"]
            /\ sem_waiters' = Tail(sem_waiters)
            /\ UNCHANGED sem_value
       ELSE /\ fpc' = [fpc EXCEPT ![t] = "done"]
            /\ sem_value' = sem_value + 1
            /\ UNCHANGED sem_waiters
    /\ UNCHANGED <<fetch_names, max_chars, max_concurrency, gather, readmes>>

\* every task has returned: gather returns their results and fetch_readmes
\* returns dict(results) (github.py:318-319)
GatherReturn ==
    /\ UNCHANGED notFetchVars
    /\ gather = "pending"
    /\ GatherDone(outcome)
    /\ gather' = "returned"
    /\ readmes' = [t \in Tasks |-> outcome[t].text]
    /\ UNCHANGED <<fetch_names, max_chars, max_concurrency, fpc, response,
                   outcome, sem_value, sem_waiters>>

\* a task has raised: gather (return_exceptions is not set) passes the
\* exception on to fetch_readmes, which has no handler; the other tasks are
\* left running (github.py:318)
GatherRaise ==
    /\ UNCHANGED notFetchVars
    /\ gather = "pending"
    /\ \E t \in Tasks : outcome[t].kind = "exception"
    /\ gather' = "raised"
    /\ UNCHANGED <<fetch_names, max_chars, max_concurrency, fpc, response,
                   outcome, sem_value, sem_waiters, readmes>>

FetchNext ==
    \/ CallFetchReadmes
    \/ \E t \in Tasks : StartTask(t)
    \/ \E t \in Tasks : ResumeTask(t)
    \/ \E t \in Tasks : ReadmeResponse(t)
    \/ GatherReturn
    \/ GatherRaise

\* the part is not in use
SearchParked ==
    /\ max_repos = 0
    /\ keywords = <<>>
    /\ cached_repos = {}
    /\ endpoint = MergeEndpoint
    /\ SearchIdle

(***************************************************************************)
(* Seen-cache: pure helpers.                                               *)
(***************************************************************************)
\* date.isoformat(): the text of a date.  A text is an ISO date or not.
IsoFormat(day) == [iso |-> TRUE, day |-> day]

\* the cache file's text is a sequence of tokens: an opening brace, one
\* token per entry, a closing brace
OpenBrace == [tok |-> "open", name |-> 0, date |-> IsoFormat(0)]
CloseBrace == [tok |-> "close", name |-> 0, date |-> IsoFormat(0)]
EntryToken(e) == [tok |-> "entry", name |-> e.name, date |-> e.date]

\* A dict is modelled as the set of its entries [name, date], one per key.
\* The order of the entries, which json.dumps follows and no operation of
\* RepoCache reads, is not modelled: the text lists them by identifier.
Keys(d) == {e.name : e \in d}

RECURSIVE EntriesFrom(_, _)
EntriesFrom(d, n) ==
    IF n > NumCacheIds THEN <<>>
    ELSE (IF n \in Keys(d)
          THEN <<EntryToken(CHOOSE e \in d : e.name = n)>> ELSE <<>>)
         \o EntriesFrom(d, n + 1)

\* json.dumps(self._data, indent=2)
JsonDumps(d) == <<OpenBrace>> \o EntriesFrom(d, 1) \o <<CloseBrace>>

\* json.loads raises JSONDecodeError unless the text is a complete document
JsonParses(text) ==
    /\ Len(text) >= 2
    /\ text[1].tok = "open"
    /\ text[Len(text)].tok = "close"
    /\ \A i \in 2..(Len(text) - 1) : text[i].tok = "entry"

\* a parser that loses the last entry of the document
JsonLoadsLossy(text) ==
    {[name |-> text[i].name, date |-> text[i].date] : i \in 2..(Len(text) - 2)}

\* json.loads of a complete document
JsonLoads(text) ==
    {[name |-> text[i].name, date |-> text[i].date] : i \in 2..(Len(text) - 1)}

\* RepoCache.__init__ (cache.py:15-21)
LoadData(file) ==
    IF file.exists /\ JsonParses(file.text) THEN JsonLoads(file.text) ELSE {}

\* RepoCache.is_seen (cache.py:25)
is_seen(d, full_name) == full_name \in Keys(d)

\* a mark_seen that forgets the other identifiers
SetSeenAlone(d, full_name, day) ==
    {[name |-> full_name, date |-> [iso |-> TRUE, day |-> day]]}

\* a mark_seen that keeps the date of an identifier it already holds
SetSeenKeepsOld(d, full_name, day) ==
    IF \E e \in d : e.name = full_name THEN d
    ELSE d \cup {[name |-> full_name, date |-> [iso |-> TRUE, day |-> day]]}

\* self._data[full_name] = date.today().isoformat() (cache.py:29)
SetSeen(d, full_name, day) ==
    {e \in d : e.name # full_name}
        \cup {[name |-> full_name, date |-> IsoFormat(day)]}

\* a prune that removes the entry at the cutoff as well
PrunedStrict(d, cutoff) == {e \in d : e.date.day > cutoff}

\* the dict comprehension of prune (cache.py:33-38)
Pruned(d, cutoff) == {e \in d : e.date.day >= cutoff}

\* a value of the file's mapping that is not the text of a date
NotADate == [iso |-> FALSE, day |-> 0]

\* date.fromisoformat raises ValueError (TypeError for a value that is not
\* a string) on such a value (cache.py:37)
PruneRaises(d) == \E e \in d : ~e.date.iso

\* the dicts over the identifiers 1..NumCacheIds with dates 0..MaxDay
Dicts ==
    {d \in SUBSET [name : 1..NumCacheIds, date : {IsoFormat(day) : day \in 0..MaxDay}] :
        \A e1, e2 \in d : e1.name = e2.name => e1 = e2}

\* the JSON objects a file may hold: a value is the text of a date, or is
\* something else (another string, a number)
FileDicts ==
    {d \in SUBSET [name : 1..NumCacheIds,
                   date : {IsoFormat(day) : day \in 0..MaxDay} \cup {NotADate}] :
        \A e1, e2 \in d : e1.name = e2.name => e1 = e2}

\* the files a run may find: none, an empty one, a JSON object
InitialFiles ==
    {[exists |-> FALSE, text |-> <<>>], [exists |-> TRUE, text |-> <<>>]}
        \cup {[exists |-> TRUE, text |-> JsonDumps(d)] : d \in FileDicts}

(***************************************************************************)
(* Seen-cache: initial states and actions.                                 *)
(***************************************************************************)
CacheIdle ==
    /\ cpc = "off"
    /\ data = {}
    /\ save_text = <<>>
    /\ save_prev = [exists |-> FALSE, text |-> <<>>]
    /\ last_op = "none"

CacheInit ==
    /\ cache_file \in InitialFiles
    /\ cache_days \in 0..MaxCacheDays
    /\ today \in 0..MaxDay
    /\ never_marked = IF LoadData(cache_file) = {} THEN 1..NumCacheIds ELSE {}
    /\ CacheIdle

\* the part is not in use
CacheParked ==
    /\ cache_file = [exists |-> FALSE, text |-> <<>>]
    /\ cache_days = 0
    /\ today = 0
    /\ never_marked = {}
    /\ CacheIdle

\* a process starts and constructs RepoCache(cache_path) (cache.py:11-21)
Load ==
    /\ UNCHANGED notCacheVars
    /\ cpc \in {"off", "stopped", "stopped_in_save", "raised"}
    /\ data' = LoadData(cache_file)
    /\ cpc' = "ready"
    /\ save_text' = <<>>
    /\ save_prev' = [exists |-> FALSE, text |-> <<>>]
    /\ last_op' = "load"
    /\ UNCHANGED <<cache_file, cache_days, today, never_marked>>

\* RepoCache.mark_seen (cache.py:27-29)
MarkSeen(full_name) ==
    /\ UNCHANGED notCacheVars
    /\ cpc = "ready"
    /\ data' = SetSeen(data, full_name, today)
    /\ last_op' = "mark_seen"
    /\ never_marked' = never_marked \ {full_name}
    /\ UNCHANGED <<cache_file, cache_days, today, cpc, save_text, save_prev>>

\* RepoCache.prune (cache.py:31-38).  When date.fromisoformat raises, the
\* exception leaves prune and run_pipeline_async, which has no handler
\* (main.py:171): the run ends without saving.
Prune ==
    /\ UNCHANGED notCacheVars
    /\ cpc = "ready"
    /\ IF PruneRaises(data)
       THEN /\ cpc' = "raised"
            /\ data' = {}
            /\ last_op' = "none"
       ELSE /\ data' = Pruned(data, today - cache_days)
            /\ last_op' = "prune"
            /\ UNCHANGED cpc
    /\ UNCHANGED <<cache_file, cache_days, today, save_text, save_prev,
                   never_marked>>

\* RepoCache.save, first step (cache.py:42): json.dumps renders the text and
\* Path.write_text opens cache_path for writing, which truncates the file
SaveOpen ==
    /\ UNCHANGED notCacheVars
    /\ cpc = "ready"
    /\ save_text' = JsonDumps(data)
    /\ save_prev' = cache_file
    /\ cache_file' = [exists |-> TRUE, text |-> <<>>]
    /\ cpc' = "saving"
    /\ UNCHANGED <<data, cache_days, today, last_op, never_marked>>

\* RepoCache.save, the write (cache.py:42): the text reaches the file piece
\* by piece
SaveWrite ==
    /\ UNCHANGED notCacheVars
    /\ cpc = "saving"
    /\ Len(cache_file.text) < Len(save_text)
    /\ cache_file' = [cache_file EXCEPT
                         !.text = Append(@, save_text[Len(@) + 1])]
    /\ UNCHANGED <<data, cache_days, today, cpc, save_text, save_prev,
                   last_op, never_marked>>

\* RepoCache.save, last step (cache.py:42): the file is closed and save
\* returns
SaveClose ==
    /\ UNCHANGED notCacheVars
    /\ cpc = "saving"
    /\ cache_file.text = save_text
    /\ cpc' = "ready"
    /\ save_text' = <<>>
    /\ save_prev' = [exists |-> FALSE, text |-> <<>>]
    /\ last_op' = "save"
    /\ UNCHANGED <<cache_file, data, cache_days, today, never_marked>>

\* the process stops (it is killed, the machine loses power): what it held
\* in memory is gone, the file stays as it is
Stop ==
    /\ UNCHANGED notCacheVars
    /\ cpc \in {"ready", "saving"}
    /\ cpc' = IF cpc = "saving" THEN "stopped_in_save" ELSE "stopped"
    /\ data' = {}
    /\ last_op' = "none"
    /\ UNCHANGED <<cache_file, cache_days, today, save_text, save_prev,
                   never_marked>>

\* midnight passes
NextDay ==
    /\ UNCHANGED notCacheVars
    /\ today < MaxDay
    /\ today' = today + 1
    /\ UNCHANGED <<cache_file, data, cache_days, cpc, save_text, save_prev,
                   last_op, never_marked>>

CacheNext ==
    \/ Load
    \/ \E n \in 1..NumCacheIds : MarkSeen(n)
    \/ Prune
    \/ SaveOpen
    \/ SaveWrite
    \/ SaveClose
    \/ Stop
    \/ NextDay

(***************************************************************************)
(* README decoding: helpers, initial states and actions.                   *)
(***************************************************************************)
\* The bytes of a README: "ascii" is a one-byte character, "lead" the first
\* byte of a two-byte character, "cont" a continuation byte.
Bytes == {"ascii", "lead", "cont"}

ByteStrings == UNION {[1..n -> Bytes] : n \in 0..MaxBytes}

\* bytes.decode("utf-8", errors="replace") (github.py:298): a one-byte
\* character, a two-byte character, or U+FFFD for a byte that does not
\* belong to a well-formed sequence
RECURSIVE Utf8Decode(_)
Utf8Decode(b) ==
    IF b = <<>> THEN <<>>
    ELSE IF b[1] = "ascii" THEN <<"a">> \o Utf8Decode(Tail(b))
    ELSE IF b[1] = "lead" /\ Len(b) >= 2 /\ b[2] = "cont"
         THEN <<"e_acute">> \o Utf8Decode(SubSeq(b, 3, Len(b)))
    ELSE <<"replacement">> \o Utf8Decode(Tail(b))

\* a fetch that cuts the bytes to the limit and decodes what is left
ReadmeTextCutBytes(b, limit) == Utf8Decode(Truncated(b, limit))

\* github.py:298-299: decode, then content[:max_chars]
ReadmeText(b, limit) == Truncated(Utf8Decode(b), limit)

DecodeInit ==
    /\ content_bytes \in ByteStrings
    /\ decode_limit \in 0..MaxLimit
    /\ decode_pc = "received"
    /\ decode_text = <<>>

\* the part is not in use
DecodeParked ==
    /\ content_bytes = <<>>
    /\ decode_limit = 0
    /\ decode_pc = "received"
    /\ decode_text = <<>>

\* _fetch_single_readme decodes the content of a 200 response and returns
\* it truncated (github.py:297-299)
DecodeReadme ==
    /\ UNCHANGED notDecodeVars
    /\ decode_pc = "received"
    /\ decode_text' = ReadmeText(content_bytes, decode_limit)
    /\ decode_pc' = "returned"
    /\ UNCHANGED <<content_bytes, decode_limit>>

DecodeNext == DecodeReadme

(***************************************************************************)
(* Provider factory: helpers, initial states and actions.                  *)
(***************************************************************************)
\* the keys of `providers`, in the order of the dict (factory.py:23-27)
ProviderNames == <<"openai", "anthropic", "google">>

\* providers[name] (factory.py:23-27)
ProviderClass(name) ==
    CASE name = "openai" -> "OpenAIProvider"
      [] name = "anthropic" -> "AnthropicProvider"
      [] name = "google" -> "GoogleProvider"

\* the names create_provider is called with: the registered ones, and
\* names that are not keys of the dict (the lookup is exact)
GivenNames == {"openai", "anthropic", "google", "OpenAI", "mistral", ""}

NoProvider == [kind |-> "none", error |-> "", class |-> "", names |-> <<>>,
               model |-> 0, api_key |-> 0]

\* a factory that falls back on the first provider for a name it does not
\* know
CreateProviderWithDefault(name, model, key) ==
    LET known == \E i \in 1..Len(ProviderNames) : ProviderNames[i] = name
    IN  [kind |-> "provider", error |-> "",
         class |-> ProviderClass(IF known THEN name ELSE ProviderNames[1]),
         names |-> <<>>, model |-> model, api_key |-> key]

\* create_provider (factory.py:23-32)
CreateProvider(name, model, key) ==
    IF ~(\E i \in 1..Len(ProviderNames) : ProviderNames[i] = name)
    THEN [kind |-> "raised", error |-> "ValueError", class |-> "",
          names |-> ProviderNames, model |-> 0, api_key |-> 0]
    ELSE [kind |-> "provider", error |-> "", class |-> ProviderClass(name),
          names |-> <<>>, model |-> model, api_key |-> key]

FactoryInit ==
    /\ provider_name \in GivenNames
    /\ llm_model \in 1..NumModels
    /\ llm_api_key \in 1..NumKeys
    /\ factory_pc = "called"
    /\ factory_result = NoProvider

\* the part is not in use
FactoryParked ==
    /\ provider_name = ""
    /\ llm_model = 1
    /\ llm_api_key = 1
    /\ factory_pc = "called"
    /\ factory_result = NoProvider

\* create_provider runs to its return or its raise (factory.py:23-32)
CallCreateProvider ==
    /\ UNCHANGED notFactoryVars
    /\ factory_pc = "called"
    /\ factory_result' = CreateProvider(provider_name, llm_model, llm_api_key)
    /\ factory_pc' = "ended"
    /\ UNCHANGED <<provider_name, llm_model, llm_api_key>>

FactoryNext == CallCreateProvider

(***************************************************************************)
(* Discord: helpers, initial states and actions.                           *)
(***************************************************************************)
\* format_repo_embed (discord.py:9-23): the embed is titled with the
\* repository's full_name and carries the evaluator's reason
Embed(pair) == [title |-> pair.full_name, reason |-> pair.reason]

\* a slice one pair short
BatchShort(pairs, i, b) == SubSeq(pairs, i + 1, Min(i + b - 1, Len(pairs)))

\* repos_with_results[i:i + batch_size] (discord.py:41)
Batch(pairs, i, b) == SubSeq(pairs, i + 1, Min(i + b, Len(pairs)))

\* the payload of one send_repos post (discord.py:42-44)
EmbedsMessage(batch_pairs) ==
    [kind |-> "embeds",
     embeds |-> [k \in 1..Len(batch_pairs) |-> Embed(batch_pairs[k])]]

\* the payload of send_summary (discord.py:51-53)
SummaryMessage(total_found, total_processed) ==
    [kind |-> "summary", embeds |-> <<>>, found |-> total_found,
     processed |-> total_processed]

\* the pairs send_repos is given: repositories 1..n, each with a reason
PairLists ==
    {[k \in 1..n |-> [full_name |-> k, reason |-> "reason"]] :
        n \in 0..MaxMatched}

DiscordIdle ==
    /\ send_i = 0
    /\ posts = <<>>

\* send_repos is called on its own
DiscordInit ==
    /\ repos_with_results \in PairLists
    /\ batch_size \in 1..MaxBatchSize
    /\ discord_pc = "send_repos"
    /\ DiscordIdle

\* the part is not in use
DiscordParked ==
    /\ repos_with_results = <<>>
    /\ batch_size = 1
    /\ discord_pc = "idle"
    /\ DiscordIdle

\* one turn of the loop of send_repos with a post the webhook accepts
\* (discord.py:40-47)
PostBatch ==
    /\ UNCHANGED notDiscordVars
    /\ discord_pc = "send_repos"
    /\ send_i < Len(repos_with_results)
    /\ posts' = Append(posts,
                  EmbedsMessage(Batch(repos_with_results, send_i, batch_size)))
    /\ send_i' = send_i + batch_size
    /\ UNCHANGED <<repos_with_results, batch_size, discord_pc>>

\* one turn of the loop with a post that fails: the request raises or
\* raise_for_status does (discord.py:46-47); send_repos has no handler
PostBatchFails ==
    /\ UNCHANGED notDiscordVars
    /\ discord_pc = "send_repos"
    /\ send_i < Len(repos_with_results)
    /\ discord_pc' = "raised"
    /\ UNCHANGED <<repos_with_results, batch_size, send_i, posts>>

\* range(0, len(repos_with_results), batch_size) is exhausted: send_repos
\* returns (discord.py:40)
SendReposReturn ==
    /\ UNCHANGED notDiscordVars
    /\ discord_pc = "send_repos"
    /\ send_i >= Len(repos_with_results)
    /\ discord_pc' = "returned"
    /\ UNCHANGED <<repos_with_results, batch_size, send_i, posts>>

DiscordNext ==
    \/ PostBatch
    \/ PostBatchFails
    \/ SendReposReturn

(***************************************************************************)
(* Pipeline: helpers, initial states and actions.                          *)
(***************************************************************************)
\* RepoCache.get_seen_repos, which run_pipeline_async calls (main.py:98):
\* the identifiers the cache holds
GetSeenRepos(d) == Keys(d)

\* the star filter (main.py:117-118)
StarFilter(rs, m) ==
    IF m > 0 THEN SelectSeq(rs, LAMBDA r : r.stars >= m) ELSE rs

\* what the provider's API may answer to one evaluation: a JSON verdict
\* either way, a text that is not JSON, or an error of the API call
EvalResponses == {"interested", "not_interested", "unparseable",
                  "provider_error"}

\* an evaluate that lets the error of the API call through
EvaluateRaises(resp) ==
    [raised |-> resp = "provider_error",
     interested |-> resp = "interested",
     reason |-> IF resp = "unparseable" THEN "Failed to parse LLM response"
                ELSE "reason"]

\* OpenAIProvider.evaluate (openai_provider.py:29-74; the Anthropic and
\* Google providers have the same handlers): json.JSONDecodeError and any
\* other Exception become a result with interested=False
Evaluate(resp) ==
    [raised |-> FALSE,
     interested |-> resp = "interested",
     reason |-> CASE resp = "unparseable" -> "Failed to parse LLM response"
                  [] resp = "provider_error" -> "Error"
                  [] OTHER -> "reason"]

\* a run that marks only the repositories that matched
MarkEvaluatedIfMatched(d, full_name, evaluation, day) ==
    IF evaluation.interested THEN SetSeen(d, full_name, day) ELSE d

\* "Mark as seen regardless of interest" (main.py:148-149)
MarkEvaluated(d, full_name, evaluation, day) == SetSeen(d, full_name, day)

\* a test that forgets the dry run
ShouldNotifyIgnoringDryRun(dry, m) == m # <<>>

\* if not dry_run and matched (main.py:157)
ShouldNotify(dry, m) == ~dry /\ m # <<>>

\* a run that swallows the failure of a Discord post and goes on
OnDiscordFailureSwallowed == "prune"

\* try/finally without except (main.py:159-164): the exception of a post
\* leaves run_pipeline_async after discord.close()
OnDiscordFailure == "aborted_discord"

\* the run has not returned
NoResult == [returned |-> FALSE, processed |-> 0, matched |-> 0]

\* the lists the search may return: repositories 1..n with their stars
FoundLists ==
    UNION {{[k \in 1..n |-> [full_name |-> k, stars |-> st[k]]] :
               st \in [1..n -> {1, MaxStars}]} : n \in 0..NumCacheIds}

\* the cache files a run may find: none, an empty one, a JSON object of
\* at most one entry
PipelineFiles ==
    {[exists |-> FALSE, text |-> <<>>], [exists |-> TRUE, text |-> <<>>]}
        \cup {[exists |-> TRUE, text |-> JsonDumps(d)] :
                 d \in {fd \in FileDicts : Cardinality(fd) <= 1}}

PipelineIdle ==
    /\ skip_repos = {}
    /\ found = <<>>
    /\ new_repos = <<>>
    /\ verdicts = <<>>
    /\ matched = <<>>
    /\ run_result = NoResult

\* a run is about to start.  The date does not change during the run.
PipelineInit ==
    /\ ppc = "start"
    /\ dry_run \in BOOLEAN
    /\ min_stars \in {0, MaxStars}
    /\ PipelineIdle
    /\ cache_file \in PipelineFiles
    /\ start_file = cache_file
    /\ cache_days \in {0, MaxCacheDays}
    /\ today = MaxDay
    /\ never_marked = {}
    /\ CacheIdle
    /\ repos_with_results = <<>>
    /\ batch_size \in 1..MaxConfigBatch
    /\ discord_pc = "idle"
    /\ DiscordIdle

\* the part is not in use
PipelineParked ==
    /\ ppc = "off"
    /\ dry_run = FALSE
    /\ min_stars = 0
    /\ start_file = [exists |-> FALSE, text |-> <<>>]
    /\ PipelineIdle

\* the parts of the seen-cache and of the Discord client a step of the run
\* does not touch
cacheRest == <<cache_days, today, cpc, save_text, save_prev, last_op,
               never_marked>>
discordRest == <<repos_with_results, batch_size, send_i, discord_pc, posts>>

\* the run constructs RepoCache and asks it for the identifiers to skip
\* (main.py:84-98)
PStart ==
    /\ UNCHANGED notPipelineVars
    /\ ppc = "start"
    /\ data' = LoadData(cache_file)
    /\ skip_repos' = GetSeenRepos(data')
    /\ ppc' = "search"
    /\ UNCHANGED <<cache_file, cacheRest, discordRest>>
    /\ UNCHANGED <<dry_run, min_stars, found, new_repos, verdicts, matched,
                   run_result, start_file>>

\* the search returns, the star filter is applied and the READMEs are
\* fetched (main.py:102-128)
PSearch ==
    /\ UNCHANGED notPipelineVars
    /\ ppc = "search"
    /\ \E f \in FoundLists :
          /\ found' = f
          /\ new_repos' = StarFilter(f, min_stars)
    /\ ppc' = "evaluate"
    /\ UNCHANGED <<cache_file, data, cacheRest, discordRest>>
    /\ UNCHANGED <<dry_run, min_stars, skip_repos, verdicts, matched,
                   run_result, start_file>>

\* search_repos or fetch_readmes raises: run_pipeline_async has no handler
\* (main.py:102-128)
PSearchRaises ==
    /\ UNCHANGED notPipelineVars
    /\ ppc = "search"
    /\ ppc' = "aborted_search"
    /\ UNCHANGED <<cache_file, data, cacheRest, discordRest>>
    /\ UNCHANGED <<dry_run, min_stars, skip_repos, found, new_repos, verdicts,
                   matched, run_result, start_file>>

\* one turn of the evaluation loop (main.py:135-149)
PEvaluate ==
    /\ UNCHANGED notPipelineVars
    /\ ppc = "evaluate"
    /\ Len(verdicts) < Len(new_repos)
    /\ \E resp \in EvalResponses :
          LET repo == new_repos[Len(verdicts) + 1]
              evaluation == Evaluate(resp)
          IN  IF evaluation.raised
              THEN /\ ppc' = "aborted_evaluate"
                   /\ UNCHANGED <<verdicts, matched, data>>
              ELSE /\ verdicts' = Append(verdicts, resp)
                   /\ matched' =
                         IF evaluation.interested
                         THEN Append(matched, [full_name |-> repo.full_name,
                                               reason |-> evaluation.reason])
                         ELSE matched
                   /\ data' = MarkEvaluated(data, repo.full_name,
                                            evaluation, today)
                   /\ UNCHANGED ppc
    /\ UNCHANGED <<cache_file, cacheRest, discordRest>>
    /\ UNCHANGED <<dry_run, min_stars, skip_repos, found, new_repos,
                   run_result, start_file>>

\* the loop is over: the run decides whether to notify (main.py:157-168)
PLoopExit ==
    /\ UNCHANGED notPipelineVars
    /\ ppc = "evaluate"
    /\ Len(verdicts) = Len(new_repos)
    /\ ppc' = IF ShouldNotify(dry_run, matched) THEN "summary" ELSE "prune"
    /\ UNCHANGED <<cache_file, data, cacheRest, discordRest>>
    /\ UNCHANGED <<dry_run, min_stars, skip_repos, found, new_repos, verdicts,
                   matched, run_result, start_file>>

\* discord.send_summary posts and the run calls discord.send_repos(matched,
\* batch_size=config.batch_size) (main.py:160-161, discord.py:49-55)
PSendSummary ==
    /\ UNCHANGED notPipelineVars
    /\ ppc = "summary"
    /\ posts' = <<SummaryMessage(Len(matched), Len(new_repos))>>
    /\ repos_with_results' = matched
    /\ send_i' = 0
    /\ discord_pc' = "send_repos"
    /\ ppc' = "discord"
    /\ UNCHANGED <<cache_file, data, cacheRest, batch_size>>
    /\ UNCHANGED <<dry_run, min_stars, skip_repos, found, new_repos, verdicts,
                   matched, run_result, start_file>>

\* the post of send_summary fails (discord.py:54-55)
PSendSummaryFails ==
    /\ UNCHANGED notPipelineVars
    /\ ppc = "summary"
    /\ discord_pc' = "raised"
    /\ ppc' = "discord"
    /\ UNCHANGED <<cache_file, data, cacheRest, repos_with_results,
                   batch_size, send_i, posts>>
    /\ UNCHANGED <<dry_run, min_stars, skip_repos, found, new_repos, verdicts,
                   matched, run_result, start_file>>

\* send_repos has returned: discord.close() and on to the cache
\* (main.py:162-164)
PDiscordReturned ==
    /\ UNCHANGED notPipelineVars
    /\ ppc = "discord"
    /\ discord_pc = "returned"
    /\ ppc' = "prune"
    /\ UNCHANGED <<cache_file, data, cacheRest, discordRest>>
    /\ UNCHANGED <<dry_run, min_stars, skip_repos, found, new_repos, verdicts,
                   matched, run_result, start_file>>

\* a post has failed: discord.close() and the exception goes on
\* (main.py:159-164)
PDiscordRaised ==
    /\ UNCHANGED notPipelineVars
    /\ ppc = "discord"
    /\ discord_pc = "raised"
    /\ ppc' = OnDiscordFailure
    /\ UNCHANGED <<cache_file, data, cacheRest, discordRest>>
    /\ UNCHANGED <<dry_run, min_stars, skip_repos, found, new_repos, verdicts,
                   matched, run_result, start_file>>

\* cache.prune() (main.py:171, cache.py:31-38)
PPrune ==
    /\ UNCHANGED notPipelineVars
    /\ ppc = "prune"
    /\ IF PruneRaises(data)
       THEN /\ ppc' = "aborted_prune"
            /\ UNCHANGED data
       ELSE /\ data' = Pruned(data, today - cache_days)
            /\ ppc' = "save"
    /\ UNCHANGED <<cache_file, cacheRest, discordRest>>
    /\ UNCHANGED <<dry_run, min_stars, skip_repos, found, new_repos, verdicts,
                   matched, run_result, start_file>>

\* cache.save() and the return (main.py:172-174, cache.py:40-42)
PSave ==
    /\ UNCHANGED notPipelineVars
    /\ ppc = "save"
    /\ cache_file' = [exists |-> TRUE, text |-> JsonDumps(data)]
    /\ run_result' = [returned |-> TRUE, processed |-> Len(new_repos),
                      matched |-> Len(matched)]
    /\ ppc' = "returned"
    /\ UNCHANGED <<data, cacheRest, discordRest>>
    /\ UNCHANGED <<dry_run, min_stars, skip_repos, found, new_repos, verdicts,
                   matched, start_file>>

PipelineNext ==
    \/ PStart
    \/ PSearch
    \/ PSearchRaises
    \/ PEvaluate
    \/ PLoopExit
    \/ PSendSummary
    \/ PSendSummaryFails
    \/ PostBatch
    \/ PostBatchFails
    \/ SendReposReturn
    \/ PDiscordReturned
    \/ PDiscordRaised
    \/ PPrune
    \/ PSave

(***************************************************************************)
(* Specifications.                                                         *)
(***************************************************************************)
SearchSpecInit ==
    /\ SearchInit /\ FetchParked /\ CacheParked /\ DecodeParked
    /\ FactoryParked /\ DiscordParked /\ PipelineParked

FetchSpecInit ==
    /\ FetchInit /\ SearchParked /\ CacheParked /\ DecodeParked
    /\ FactoryParked /\ DiscordParked /\ PipelineParked

CacheSpecInit ==
    /\ CacheInit /\ SearchParked /\ FetchParked /\ DecodeParked
    /\ FactoryParked /\ DiscordParked /\ PipelineParked

DecodeSpecInit ==
    /\ DecodeInit /\ SearchParked /\ FetchParked /\ CacheParked
    /\ FactoryParked /\ DiscordParked /\ PipelineParked

FactorySpecInit ==
    /\ FactoryInit /\ SearchParked /\ FetchParked /\ CacheParked
    /\ DecodeParked /\ DiscordParked /\ PipelineParked

DiscordSpecInit ==
    /\ DiscordInit /\ SearchParked /\ FetchParked /\ CacheParked
    /\ DecodeParked /\ FactoryParked /\ PipelineParked

PipelineSpecInit ==
    /\ PipelineInit /\ SearchParked /\ FetchParked /\ DecodeParked
    /\ FactoryParked

FactorySpec == FactorySpecInit /\ [][FactoryNext]_vars

DiscordSpec == DiscordSpecInit /\ [][DiscordNext]_vars

PipelineSpec == PipelineSpecInit /\ [][PipelineNext]_vars

DecodeSpec == DecodeSpecInit /\ [][DecodeNext]_vars

SearchSpec == SearchSpecInit /\ [][SearchNext]_vars

FetchSpec == FetchSpecInit /\ [][FetchNext]_vars

\* The event loop runs every coroutine that is ready, and a request does not
\* stay unanswered for ever: the client's timeout (github.py:183) ends it.
\* A step of FetchNext that can be taken is eventually taken.
FetchLiveSpec == FetchSpec /\ WF_vars(FetchNext)

CacheSpec == CacheSpecInit /\ [][CacheNext]_vars

(***************************************************************************)
(* Search: properties.                                                     *)
(***************************************************************************)
NonIncreasingStars(s) ==
    \A i, j \in 1..Len(s) : i < j => s[i].stars >= s[j].stars

\* the list the sort and the truncation are applied to
MergedList == IF batch = 0 THEN repos ELSE all_repos

\* C3: every repository whose identifier is in the skip-set taken from the
\* seen-cache is excluded from the list search_repos returns.
C3_SkipSetExcluded ==
    spc = "returned" =>
        \A i \in 1..Len(result) : result[i].full_name \notin cached_repos

\* C4 (as claimed): with several keyword batches, a failed page request ends
\* only its own batch; the call still returns the results of the others.
C4_BatchIsolation ==
    (UseBatches(keywords) /\ failed_batch # -1) => spc # "raised"

\* C4 (amended): a failed page request ends the whole search_repos call: the
\* error reaches the caller, no later batch is searched and no list is
\* returned, whatever the earlier batches had found.
C4_FailureAbortsCall ==
    failed_batch # -1 =>
        /\ spc = "raised"
        /\ result = <<>>
        /\ batch = failed_batch

\* three batches, the second fails: what the first found is dropped and the
\* third is never searched
C4_Witness ==
    /\ spc = "raised"
    /\ Len(keyword_batches) = 3
    /\ failed_batch = 2
    /\ all_repos # <<>>

\* new is old merged with one batch's list: no identifier twice, the copies
\* old holds are kept, the others come from the batch's list
FirstWins(old, new, batch_repos) ==
    /\ NoRepeat(new)
    /\ Names(new) = Names(old) \cup Names(batch_repos)
    /\ Range(old) \subseteq Range(new)
    /\ Range(new) \subseteq Range(old) \cup Range(batch_repos)

\* res is all sorted by star count descending and truncated to cap
SortedTruncation(res, all, cap) ==
    /\ NoRepeat(res)
    /\ Range(res) \subseteq Range(all)
    /\ Len(res) = Min(cap, Cardinality(Range(all)))
    /\ NonIncreasingStars(res)
    /\ \A r \in Range(all) \ Range(res) :
          \A i \in 1..Len(res) : r.stars <= res[i].stars

\* C6: for more than 6 keywords the returned list is the union of the
\* per-batch lists deduplicated by identifier, the earliest batch's copy
\* kept, sorted by star count descending and truncated to the cap.  Stated
\* step by step: the merged set starts empty, each batch's list is merged
\* into it once, in batch order, with the copies it already holds kept, and
\* the call returns after the last batch with the sorted truncation.
C6_MergedResult ==
    [][UseBatches(keywords) =>
        /\ spc = "idle" => (all_repos' = <<>> /\ batch' = 1)
        /\ spc \in {"while", "awaiting"} =>
              (all_repos' = all_repos /\ batch' = batch)
        /\ spc = "single_return" =>
              /\ FirstWins(all_repos, all_repos', repos)
              /\ IF batch < (Len(keywords) + MAX_KEYWORDS_PER_QUERY - 1)
                                \div MAX_KEYWORDS_PER_QUERY
                 THEN batch' = batch + 1 /\ spc' = "while"
                 ELSE /\ spc' = "returned"
                      /\ SortedTruncation(result', all_repos', max_repos)
      ]_vars

\* the last batch brought an identifier an earlier batch had brought with
\* another star count, and the sort changed the order
C6_Witness ==
    /\ spc = "returned"
    /\ Len(keyword_batches) >= 2
    /\ NoRepeat(repos)
    /\ \E i \in 1..Len(repos) : \E j \in 1..Len(all_repos) :
          /\ repos[i].full_name = all_repos[j].full_name
          /\ repos[i].stars # all_repos[j].stars
    /\ Len(result) = 2
    /\ result[1] = all_repos[2]
    /\ result[1].stars > result[2].stars

\* C7: the list search_repos returns holds no identifier twice.
C7_NoDuplicateIds ==
    spc = "returned" => NoRepeat(result)

\* C8: the list search_repos returns is in non-increasing order of star
\* count, whatever the order the items arrive in.
C8_SortedByStars ==
    spc = "returned" => NonIncreasingStars(result)

\* the most items one page holds
MaxItemsPerPage == IF endpoint.fixed THEN per_page ELSE MaxPageItems

\* C9: the pagination of one batch ends at the first of an empty page, the
\* list reaching the cap, and the page index passing 10; it issues at most
\* 10 page requests, for pages 1, 2, ... in turn, and gathers at most
\* min(cap, 10 pages of items).
C9_PaginationBounded ==
    /\ page_requests <= PageCeiling
    /\ Len(repos) <= Min(max_repos, PageCeiling * MaxItemsPerPage)
    /\ spc = "awaiting" =>
          /\ page = page_requests
          /\ page <= PageCeiling
          /\ Len(repos) < max_repos
          /\ Len(repos) >= page - 1
    /\ spc = "single_return" =>
          \/ page = page_requests
          \/ Len(repos) >= max_repos
          \/ page > PageCeiling

\* the endpoint has more results than 10 pages hold and the cap is above
\* them: the search returns the 10 pages
C9_Witness ==
    /\ spc = "returned"
    /\ endpoint.fixed
    /\ page = PageCeiling + 1
    /\ page_requests = PageCeiling
    /\ Len(result) = PageCeiling * per_page
    /\ max_repos > Len(result)
    /\ endpoint.total > Len(result)

\* C10: the skip-set is applied before the sort and the truncation: when
\* the merged results hold at least cap repositories outside the skip-set,
\* the returned list has exactly cap repositories, none of them skipped.
C10_CapCountsNewOnly ==
    (spc = "returned" /\ Cardinality(Names(MergedList) \ cached_repos) >= max_repos) =>
        /\ Len(result) = max_repos
        /\ Names(result) \cap cached_repos = {}

\* the batches joined in their order
RECURSIVE Concatenated(_)
Concatenated(bs) ==
    IF bs = <<>> THEN <<>> ELSE Head(bs) \o Concatenated(Tail(bs))

\* C21: a keyword list of n > 6 entries is split into exactly ceil(n/6)
\* batches of at most 6 keywords each, whose concatenation in batch order
\* is the original list; each batch is searched with its own paginated
\* query (started at page 1 with an empty list, all batches searched when
\* the call returns); a list of at most 6 keywords, or none, is searched
\* with a single query.
C21_KeywordBatches ==
    /\ [](spc # "idle" =>
            IF Len(keywords) > 6
            THEN /\ 6 * (Len(keyword_batches) - 1) < Len(keywords)
                 /\ Len(keywords) <= 6 * Len(keyword_batches)
                 /\ \A i \in 1..Len(keyword_batches) :
                       Len(keyword_batches[i]) \in 1..6
                 /\ Concatenated(keyword_batches) = keywords
                 /\ batch \in 1..Len(keyword_batches)
                 /\ spc = "returned" => batch = Len(keyword_batches)
            ELSE /\ keyword_batches = <<>>
                 /\ batch = 0)
    /\ [][batch' # batch =>
            /\ repos' = <<>> /\ page' = 1 /\ page_requests' = 0
            /\ spc' = "while"]_vars
    /\ [][(spc = "single_return" /\ max_repos > 0) => page_requests >= 1]_vars

\* 13 keywords were searched in three batches and the call has returned
C21_Witness ==
    /\ spc = "returned"
    /\ Len(keywords) = 13
    /\ Len(keyword_batches) = 3
    /\ Len(keyword_batches[3]) = 1
    /\ max_repos > 0

\* C25: within one batch, page requests are issued for the page indices
\* 1, 2, 3, ... in increasing order with no gap and no repeat, and the
\* request for page k+1 is issued only after the response to page k has
\* been received and processed; batches are run in listed order, each
\* starting only after the previous one finished.
C25_SequentialPaging ==
    /\ [][(spc' = "awaiting" /\ spc # "awaiting") =>
            /\ spc = "while"
            /\ page' = page
            /\ page_requests' = page_requests + 1
            /\ page = page_requests']_vars
    /\ [][spc = "awaiting" =>
            /\ spc' \in {"while", "single_return", "raised"}
            /\ page_requests' = page_requests
            /\ page' \in {page, page + 1}
            /\ batch' = batch]_vars
    /\ [][batch' # batch =>
            /\ \/ spc = "idle" /\ batch' = 1
               \/ spc = "single_return" /\ batch' = batch + 1
            /\ page' = 1
            /\ page_requests' = 0]_vars

\* a batch after the first has issued its second page request
C25_Witness ==
    /\ spc = "awaiting"
    /\ batch >= 2
    /\ page = 2
    /\ page_requests = 2

\* C30: GitHubClient.search_repos and AsyncGitHubClient.search_repos are
\* equivalent: for the same arguments and the same endpoint responses they
\* issue the same sequence of page requests and return the same list, and
\* they fail on the same page when a request fails.
C30_SyncAsyncEquivalent ==
    /\ sync.pc = spc
    /\ sync.batch = batch
    /\ sync.keyword_batches = keyword_batches
    /\ sync.page = page
    /\ sync.page_requests = page_requests
    /\ sync.repos = repos
    /\ sync.failed_batch = failed_batch
    /\ sync.result = result

\* both clients have returned the sorted merge of the batches
C30_Witness ==
    /\ sync.pc = "returned"
    /\ spc = "returned"
    /\ Len(keyword_batches) >= 2
    /\ Len(result) = 2
    /\ result[1].stars > result[2].stars
    /\ sync.result = result

(***************************************************************************)
(* README fetching: properties.                                            *)
(***************************************************************************)
\* C1: at most max_concurrency README requests are issued and not yet
\* completed, at any time.
C1_InFlightBounded ==
    Cardinality(InFlight) <= max_concurrency

\* every permit is held by an issued request and another task waits
C1_Witness ==
    /\ Cardinality(InFlight) = max_concurrency
    /\ max_concurrency >= 2
    /\ sem_waiters # <<>>

\* C2: a README fetch failure other than not-found makes the entry of that
\* repository the empty string, and fetch_readmes still completes normally.
C2_FailuresDegrade ==
    /\ gather # "raised"
    /\ \A t \in Tasks :
          response[t].kind \in {"status_error", "network_error", "decode_error"} =>
              outcome[t] = [kind |-> "value", text |-> <<>>]

\* C11: fetch_readmes returns only after every per-repository fetch has
\* finished, with content or degraded to the empty string, never with
\* partial results, and the mapping it returns has a key for every
\* identifier of the input list.
C11_ReturnsAfterAll ==
    gather = "returned" =>
        /\ \A t \in Tasks :
              /\ fpc[t] = "done"
              /\ outcome[t].kind = "value"
              /\ readmes[t] = outcome[t].text
        /\ DOMAIN readmes = {fetch_names[t] : t \in Tasks}

\* fetch_readmes has returned for several repositories, one with content,
\* one degraded
C11_Witness ==
    /\ gather = "returned"
    /\ Len(fetch_names) >= 2
    /\ \E t, u \in Tasks :
          /\ response[t].kind = "ok" /\ readmes[t] # <<>>
          /\ response[u].kind = "network_error" /\ readmes[u] = <<>>

\* C12: a README fetch answered with 404 is not an error: its result is the
\* empty string, and the key of the identifier is in the mapping
\* fetch_readmes returns.
C12_NotFoundIsEmpty ==
    \A t \in Tasks :
        response[t].kind = "not_found" =>
            /\ outcome[t] = [kind |-> "value", text |-> <<>>]
            /\ gather = "returned" =>
                  (fetch_names[t] \in DOMAIN readmes /\ readmes[t] = <<>>)

\* fetch_readmes has returned and one of the requests was answered with 404
C12_Witness ==
    /\ gather = "returned"
    /\ \E t \in Tasks : response[t].kind = "not_found"

\* the permits of the semaphore are all accounted for: free, or held by a
\* task that is in the `async with` block
PermitsAccounted ==
    gather # "not_called" =>
        sem_value + Cardinality({t \in Tasks : fpc[t] \in {"granted", "inflight"}})
            = max_concurrency

\* C13: each README fetch has its own timeout: a fetch whose response never
\* arrives ends, with the empty string for that one identifier; the permit
\* it held is released; and fetch_readmes still returns the contents of
\* all the other repositories (a timeout never makes the call raise).
\* Every fetch ends and the call ends: from some point on every task is
\* done and gather has returned or raised.
C13_TimeoutDegradesOne ==
    /\ [](\A t \in Tasks :
            response[t].kind = "timeout" =>
                /\ fpc[t] = "done"
                /\ outcome[t] = [kind |-> "value", text |-> <<>>])
    /\ []PermitsAccounted
    /\ [](gather = "raised" => \E t \in Tasks : response[t].kind = "decode_error")
    /\ [](gather = "returned" =>
            \A t \in Tasks :
                readmes[t] = IF response[t].kind = "ok"
                             THEN Truncated(response[t].text, max_chars)
                             ELSE <<>>)
    /\ <>[](/\ \A t \in Tasks : fpc[t] = "done"
            /\ gather \in {"returned", "raised"})

\* fetch_readmes has returned: one request timed out while another task was
\* waiting for a permit, and another repository has its content
C13_Witness ==
    /\ gather = "returned"
    /\ max_concurrency < Len(fetch_names)
    /\ \E t, u \in Tasks :
          /\ response[t].kind = "timeout" /\ readmes[t] = <<>>
          /\ response[u].kind = "ok" /\ readmes[u] # <<>>

\* C29: every fetch started by fetch_readmes acquires a permit and
\* finishes, the permit is released on every exit path, and when
\* fetch_readmes ends (it returns or raises) every fetch has finished and
\* all max_concurrency permits are free.
C29_PermitsFreeAtEnd ==
    gather \in {"returned", "raised"} =>
        /\ \A t \in Tasks : fpc[t] = "done"
        /\ sem_value = max_concurrency
        /\ sem_waiters = <<>>

(***************************************************************************)
(* README decoding: properties.                                            *)
(***************************************************************************)
\* C14: for every decoded README of length L and every limit M, the text
\* the fetch returns is exactly the first min(L, M) characters of the
\* decoded content: truncation is applied after decoding, and the result
\* is never longer than M.
C14_TruncatedAfterDecoding ==
    decode_pc = "returned" =>
        LET decoded == Utf8Decode(content_bytes)
        IN  /\ Len(decode_text) = Min(Len(decoded), decode_limit)
            /\ \A i \in 1..Len(decode_text) : decode_text[i] = decoded[i]
            /\ Len(decode_text) <= decode_limit

\* a README whose bytes outnumber the limit and whose last character within
\* the limit takes two bytes has been returned truncated
C14_Witness ==
    /\ decode_pc = "returned"
    /\ decode_limit >= 1
    /\ Len(Utf8Decode(content_bytes)) > decode_limit
    /\ decode_text[decode_limit] = "e_acute"
    /\ content_bytes[decode_limit] = "lead"

(***************************************************************************)
(* Provider factory: properties.                                           *)
(***************************************************************************)
Registered(name) == name \in {"openai", "anthropic", "google"}

\* the error names every registered provider and constructs none
EnumeratesValidNames(r) ==
    /\ r.kind = "raised"
    /\ r.class = ""
    /\ {r.names[i] : i \in 1..Len(r.names)} = {"openai", "anthropic", "google"}

ReturnsNamedProvider(r) ==
    /\ r.kind = "provider"
    /\ r.class = ProviderClass(provider_name)
    /\ r.model = llm_model
    /\ r.api_key = llm_api_key

\* C24: create_provider with a name that is not one of the registered
\* providers fails with a ConfigurationError whose message enumerates the
\* valid provider names, and constructs no provider; with a registered
\* name it returns the provider of that name.
C24_UnknownIsConfigurationError ==
    factory_pc = "ended" =>
        IF Registered(provider_name)
        THEN ReturnsNamedProvider(factory_result)
        ELSE /\ EnumeratesValidNames(factory_result)
             /\ factory_result.error = "ConfigurationError"

\* C24, as amended: create_provider with a name that is not one of the
\* registered providers fails with a ValueError whose message enumerates
\* the valid provider names, and constructs no provider; with a registered
\* name it returns the provider of that name.
C24_UnknownIsValueError ==
    factory_pc = "ended" =>
        IF Registered(provider_name)
        THEN ReturnsNamedProvider(factory_result)
        ELSE /\ EnumeratesValidNames(factory_result)
             /\ factory_result.error = "ValueError"

\* create_provider has raised for a name that differs from a registered one
\* in its case only
C24_Witness ==
    /\ factory_pc = "ended"
    /\ provider_name = "OpenAI"
    /\ factory_result.kind = "raised"

(***************************************************************************)
(* Discord: properties.                                                    *)
(***************************************************************************)
\* the embeds of the messages, joined in the order of the messages
RECURSIVE EmbedsOf(_)
EmbedsOf(msgs) ==
    IF msgs = <<>> THEN <<>>
    ELSE Head(msgs).embeds \o EmbedsOf(Tail(msgs))

\* C27: send_repos with n items and batch size b posts exactly ceil(n/b)
\* messages in order, each carrying at most b embeds, and the
\* concatenation of the embeds over the messages is the input sequence in
\* its original order; with n = 0 it posts nothing.
C27_SendReposBatches ==
    LET n == Len(repos_with_results)
        sent == EmbedsOf(posts)
    IN  /\ \A m \in 1..Len(posts) :
              /\ posts[m].kind = "embeds"
              /\ Len(posts[m].embeds) \in 1..batch_size
        /\ Len(sent) <= n
        /\ \A k \in 1..Len(sent) :
              sent[k] = [title |-> repos_with_results[k].full_name,
                         reason |-> repos_with_results[k].reason]
        /\ discord_pc = "returned" =>
              /\ Len(sent) = n
              /\ batch_size * (Len(posts) - 1) < n
              /\ n <= batch_size * Len(posts)
              /\ n = 0 => posts = <<>>

\* send_repos has returned after three messages, the last one not full
C27_Witness ==
    /\ discord_pc = "returned"
    /\ Len(posts) = 3
    /\ batch_size >= 2
    /\ Len(posts[3].embeds) < batch_size

(***************************************************************************)
(* Pipeline: properties.                                                   *)
(***************************************************************************)
\* the evaluation of the i-th repository failed
EvaluationFailed(i) == verdicts[i] \in {"unparseable", "provider_error"}

\* the names the notification carries
NotifiedNames ==
    UNION {{posts[m].embeds[k].title : k \in 1..Len(posts[m].embeds)} :
              m \in 1..Len(posts)}

\* the run is past the evaluation loop
PastEvaluation ==
    ppc \in {"summary", "discord", "prune", "save", "returned",
             "aborted_discord", "aborted_prune"}

\* C22: a repository whose evaluation fails (the provider raises, or its
\* response cannot be parsed) is treated as not matched: it is never
\* included in the notification, and the run continues with the remaining
\* repositories instead of aborting.
C22_FailedEvaluationNotMatched ==
    /\ ppc # "aborted_evaluate"
    /\ PastEvaluation => Len(verdicts) = Len(new_repos)
    /\ \A i \in 1..Len(verdicts) :
          EvaluationFailed(i) =>
              /\ \A k \in 1..Len(matched) :
                    matched[k].full_name # new_repos[i].full_name
              /\ new_repos[i].full_name \notin NotifiedNames

\* a run has returned in which an evaluation failed, a later repository
\* matched and was notified
C22_Witness ==
    /\ ppc = "returned"
    /\ \E i, j \in 1..Len(verdicts) :
          /\ i < j
          /\ EvaluationFailed(i)
          /\ verdicts[j] = "interested"
          /\ new_repos[j].full_name \in NotifiedNames

\* the number of evaluations that answered "interested"
Interested == {i \in 1..Len(verdicts) : verdicts[i] = "interested"}

\* C23: in a dry run no message is ever sent to Discord, whatever the
\* number of matches; in a normal run Discord messages are sent only when
\* at least one repository matched, and the returned counts are the number
\* of evaluated repositories and the number of matched ones.
C23_NotifyOnlyMatchesOutsideDryRun ==
    /\ dry_run => posts = <<>> /\ discord_pc = "idle"
    /\ (posts # <<>> \/ discord_pc # "idle") =>
          ~dry_run /\ Cardinality(Interested) >= 1
    /\ ppc = "returned" =>
          /\ run_result.returned
          /\ run_result.processed = Len(verdicts)
          /\ run_result.matched = Cardinality(Interested)

\* a dry run has returned with two matches and nothing was sent
C23_Witness ==
    /\ ppc = "returned"
    /\ dry_run
    /\ run_result.matched = 2
    /\ run_result.processed = 2
    /\ posts = <<>>

\* the names of the repositories the run evaluated
EvaluatedNames == {new_repos[i].full_name : i \in 1..Len(verdicts)}

C28_AbortPersistsNothing ==
    (/\ verdicts # <<>>
     /\ \/ discord_pc = "raised"
        \/ ppc \in {"aborted_discord", "aborted_prune"}) =>
        /\ cache_file = start_file
        /\ ~run_result.returned
        /\ \A n \in EvaluatedNames :
              is_seen(LoadData(cache_file), n) =>
                  is_seen(LoadData(start_file), n)

\* a run has aborted on a Discord post after it marked a repository the
\* cache file does not hold
C28_Witness ==
    /\ ppc = "aborted_discord"
    /\ posts # <<>>
    /\ \E n \in EvaluatedNames :
          /\ is_seen(data, n)
          /\ ~is_seen(LoadData(cache_file), n)

(***************************************************************************)
(* Seen-cache: properties.                                                 *)
(***************************************************************************)
\* C5: save is atomic with respect to a crash: wherever the process stops
\* during save, the file holds the complete mapping persisted before or
\* the complete new mapping.
C5_SaveAtomic ==
    cpc \in {"saving", "stopped_in_save"} =>
        \/ cache_file = save_prev
        \/ cache_file = [exists |-> TRUE, text |-> save_text]

\* the file holds a JSON object
HoldsMapping(file) == file.exists /\ JsonParses(file.text)

\* every entry is the text of a date within the retention window
AllWithinWindow(d) ==
    \A e \in d : e.date.iso /\ today - e.date.day <= cache_days

\* C15: constructing a RepoCache never fails: when the cache file is missing
\* or its content is unparseable (not valid JSON, or valid JSON that is not
\* an identifier-to-date mapping), the store is empty, and the later
\* is_seen, mark_seen, prune and save operations work on that empty store.
C15_UnparseableLoadsEmpty ==
    /\ cpc # "raised"
    /\ (cpc = "ready" /\ last_op = "load") =>
          \/ data = {}
          \/ HoldsMapping(cache_file) /\ \A e \in data : e.date.iso

\* C16: prune with retention window T keeps exactly the entries whose
\* last-seen date is on or after today minus T days and removes every
\* entry strictly earlier: an entry exactly T days old is retained, and
\* after prune no retained entry is older than T days.
C16_PruneKeepsWindow ==
    [][(Prune /\ cpc' = "ready") =>
          /\ data' \subseteq data
          /\ \A e \in data :
                (e \in data') <=> (e.date.day >= today - cache_days)
          /\ \A e \in data' : today - e.date.day <= cache_days]_vars

\* prune has returned: the store keeps an entry exactly T days old, and an
\* entry of the file that was older is gone
C16_Witness ==
    /\ cpc = "ready"
    /\ last_op = "prune"
    /\ cache_days >= 1
    /\ \E e \in data : e.date.day = today - cache_days
    /\ HoldsMapping(cache_file)
    /\ \E f \in JsonLoads(cache_file.text) :
          /\ f.date.iso
          /\ f.date.day < today - cache_days
          /\ f.name \notin Keys(data)

\* C17: mark_seen never moves the stored last-seen date of an identifier to
\* an earlier date than the one stored before the call, whatever date was
\* stored before (including a date read from the cache file).
C17_MarkSeenMonotonic ==
    [][\A n \in 1..NumCacheIds :
          MarkSeen(n) =>
              \A e \in data : \A f \in data' :
                  (e.name = n /\ f.name = n /\ e.date.iso) =>
                      f.date.day >= e.date.day]_vars

\* C18: starting from an empty store, is_seen(id) is false until the first
\* mark_seen(id) and true immediately after it; marking one identifier
\* does not change is_seen of any other identifier, and the result
\* survives save followed by reload.
C18_SeenAfterMark ==
    /\ [](\A n \in never_marked :
            /\ ~is_seen(data, n)
            /\ ~is_seen(LoadData(cache_file), n))
    /\ [][\A n \in 1..NumCacheIds :
            MarkSeen(n) =>
                /\ is_seen(data', n)
                /\ \A m \in (1..NumCacheIds) \ {n} :
                      is_seen(data', m) = is_seen(data, m)]_vars
    /\ []((cpc = "saving" /\ cache_file.text = save_text) =>
            \A n \in 1..NumCacheIds :
                is_seen(LoadData(cache_file), n) = is_seen(data, n))
    /\ [][(Load /\ last_op = "save") =>
            \A n \in 1..NumCacheIds : is_seen(data', n) = is_seen(data, n)]_vars

\* a run that began with an empty store marked identifier 1 and saved; a
\* later process has loaded the file: 1 is seen, 2 was never marked and is
\* not
C18_Witness ==
    /\ never_marked = {2}
    /\ cpc = "ready"
    /\ last_op = "load"
    /\ is_seen(data, 1)
    /\ ~is_seen(data, 2)

\* C19: mark_seen(id) sets the entry of id to today's date, overwriting any
\* existing date, and is idempotent: calling it twice on the same day
\* leaves the store as calling it once does, and no other identifier's
\* entry changes.
C19_MarkSeenOverwrites ==
    [][\A n \in 1..NumCacheIds :
          MarkSeen(n) =>
              /\ \A f \in data' : f.name = n => f.date = IsoFormat(today)
              /\ n \in Keys(data')
              /\ {e \in data' : e.name # n} = {e \in data : e.name # n}
              /\ SetSeen(data', n, today') = data']_vars

\* mark_seen has returned: the identifier's entry holds today's date while
\* the file still holds its earlier date, and the entry of another
\* identifier is as it was loaded
C19_Witness ==
    /\ cpc = "ready"
    /\ last_op = "mark_seen"
    /\ HoldsMapping(cache_file)
    /\ \E e \in data : \E f \in JsonLoads(cache_file.text) :
          /\ e.name = f.name
          /\ e.date = IsoFormat(today)
          /\ f.date.iso /\ f.date.day < today
    /\ \E e \in data : e.date.iso /\ e.date.day < today
                         /\ e \in JsonLoads(cache_file.text)

\* C20: the cache file round-trips: for a file holding a mapping whose
\* entries are all within the retention window, load then prune then save
\* leaves a file that loads to the identical mapping, and in general the
\* mapping loaded after save equals the mapping that was saved.
C20_FileRoundTrips ==
    /\ (cpc = "ready" /\ last_op = "load" /\ HoldsMapping(cache_file)
            /\ AllWithinWindow(data)) =>
          LET saved == [exists |-> TRUE,
                        text |-> JsonDumps(Pruned(data, today - cache_days))]
          IN  /\ data = JsonLoads(cache_file.text)
              /\ LoadData(saved) = data
    /\ (cpc = "saving" /\ cache_file.text = save_text) =>
          LoadData(cache_file) = data

\* a store of two entries, one of them reloaded from the file and within
\* the window, has been pruned and is written out in full
C20_Witness ==
    /\ cpc = "saving"
    /\ cache_file.text = save_text
    /\ last_op = "prune"
    /\ Cardinality(data) = 2
    /\ save_prev.exists /\ JsonParses(save_prev.text)
    /\ JsonLoads(save_prev.text) = data

====
